---- MODULE Spec2Model ----
(***************************************************************************)
(* Model of the cf-treeline-cli plugin (main.go): TreelineCli.Run and its  *)
(* helpers writeDevelopmentConfig, npmInstalls and createServices.         *)
(* One run is a sequential script; every external call (search-path probe, *)
(* file write, symlink, npm install, platform call, child process) is one  *)
(* step whose outcome is chosen by the environment.  After a run has ended *)
(* the plugin may be invoked again on the same filesystem.                 *)
(***************************************************************************)
EXTENDS Integers, Sequences, FiniteSets, TLC

VARIABLES
    args,        \* the invocation handed to Run (args[1] is Go's args[0])
    pc,          \* position of the run inside Run
    toolOnPath,  \* whether exec.LookPath("treeline") succeeds
    fs,          \* the working directory: the two config files and the ignore files
    fsOps,       \* filesystem mutations attempted by this run, in order
    npmLog,      \* npm installs attempted by this run, in order
    calls,       \* platform calls issued by this run, in order, with outcome
    services,    \* the list GetServices returned to this run
    flags,       \* redisFound, redisBound, sqlFound, sqlBound of createServices
    child,       \* the delegated child process of this run
    out,         \* lines printed by this run
    exitCode,    \* exit status of the plugin process, NoExit while running
    prevConfigOK \* the previous invocation was config-pws and exited 0

vars == <<args, pc, toolOnPath, fs, fsOps, npmLog, calls, services, flags,
          child, out, exitCode, prevConfigOK>>

----------------------------------------------------------------------------
\* Bounds

MaxExtra == 1
MaxServices == 2
MaxStatus == 2

----------------------------------------------------------------------------
\* Program constants

CommandName == "treeline"
AppName == "hackday-nc"
RedisService == "hackday-rediscloud"
SqlService == "hackday-elephantsql"
developmentConfig == "developmentConfig"
localConfig == "localConfig"
packages == <<"connect-redis@1.4.5", "sails-postgresql", "socket.io-redis">>

PushCmd == <<"push", AppName, "--no-start">>
SetEnvCmd == <<"set-env", AppName, "NODE_ENV", "development">>
GetServicesCmd == <<"GetServices">>
CreateRedisCmd == <<"cs", "rediscloud", "30mb", RedisService>>
BindRedisCmd == <<"bs", AppName, RedisService>>
CreateSqlCmd == <<"cs", "elephantsql", "turtle", SqlService>>
BindSqlCmd == <<"bs", AppName, SqlService>>
StartCmd == <<"start", AppName>>

MsgInstall == "Please install treeline using 'npm install -g treeline'"
MsgLinkExists == "Could not link .cfignore to .gitignore: file exists"
MsgLinkDenied == "Could not link .cfignore to .gitignore: permission denied"
MsgWrite == "Error writing configuration"
MsgUpdatedDev == "Updated config/env/development.js"
MsgUpdatedLocal == "Updated config/local.js"
MsgNpm == "Error installing npm packages"
MsgRemote == "remote error"
MsgStart == "Error starting command"
MsgWait == "Error running command"

\* Exit status of a Go process that dies of a runtime panic
PanicStatus == 2
NoExit == -1

----------------------------------------------------------------------------
\* Input domains

SeqsUpTo(S, n) == UNION {[1..k -> S] : k \in 0..n}

\* an invocation is a command name, then possibly a subcommand and further
\* arguments (one of which may read like a subcommand)
Commands == {CommandName, "plugins"}
Subcommands == {"config-pws", "deploy", "login"}
Extras == {"deploy"}
Invocations ==
    {<<c>> : c \in Commands}
        \cup {<<c, s>> \o x : c \in Commands, s \in Subcommands,
                               x \in SeqsUpTo(Extras, MaxExtra)}

AppLists == {<<>>, <<AppName>>, <<"other-app">>, <<"other-app", AppName>>}
ServiceModels ==
    [Name : {RedisService, SqlService}, ApplicationNames : AppLists]
        \cup {[Name |-> "other-service", ApplicationNames |-> <<AppName>>]}
ServiceLists == SeqsUpTo(ServiceModels, MaxServices)

\* "stale" stands for a config file that is absent or holds anything else
FileSystems == [dev : {"stale", developmentConfig},
                local : {"stale", localConfig},
                cfignore : {"none", "file", "link"},
                gitignore : BOOLEAN]

NoFlags == [redisFound |-> FALSE, redisBound |-> FALSE,
            sqlFound |-> FALSE, sqlBound |-> FALSE]
NoChild == [started |-> FALSE, argv |-> <<>>, status |-> NoExit]

Terminal == {"exited", "returned", "panicked"}

----------------------------------------------------------------------------
\* Helpers

\* os.Exit(code) after printing msgs
Exit(code, msgs) ==
    /\ pc' = "exited"
    /\ exitCode' = code
    /\ out' = out \o msgs

\* Variant of TailArgs: the slice taken one element too far, args[2:]
TailArgs_OffByOne(a) == SubSeq(a, 3, Len(a))

\* Go's args[1:]
TailArgs(a) == SubSeq(a, 2, Len(a))

\* Variant of HasApp: only the first bound application is looked at
HasApp_FirstOnly(apps, app) == apps # <<>> /\ Head(apps) = app

\* the inner loop over service.ApplicationNames
RECURSIVE HasApp(_, _)
HasApp(apps, app) ==
    IF apps = <<>> THEN FALSE
    ELSE IF Head(apps) = app THEN TRUE
    ELSE HasApp(Tail(apps), app)

\* the scan loop of createServices, one service per iteration
RECURSIVE ScanServices(_, _)
ScanServices(svcs, f) ==
    IF svcs = <<>> THEN f
    ELSE LET s == Head(svcs)
             f1 == IF s.Name = RedisService
                   THEN [f EXCEPT !.redisFound = TRUE,
                                  !.redisBound = f.redisBound \/ HasApp(s.ApplicationNames, AppName)]
                   ELSE f
             f2 == IF s.Name = SqlService
                   THEN [f1 EXCEPT !.sqlFound = TRUE,
                                   !.sqlBound = f1.sqlBound \/ HasApp(s.ApplicationNames, AppName)]
                   ELSE f1
         IN ScanServices(Tail(svcs), f2)

\* os.Stat(".cfignore") follows symbolic links: a link whose target is
\* missing reports "does not exist"
StatNotExist(f) ==
    \/ f.cfignore = "none"
    \/ f.cfignore = "link" /\ ~f.gitignore

\* cliConnection.CliCommand(cmd...) followed by the error check: a failure
\* prints the error and exits 1, a success moves on to next
CliStep(cmd, next) ==
    \E ok \in BOOLEAN :
        /\ calls' = Append(calls, [cmd |-> cmd, ok |-> ok])
        /\ IF ok
           THEN /\ pc' = next
                /\ UNCHANGED <<exitCode, out>>
           ELSE Exit(1, <<MsgRemote>>)

----------------------------------------------------------------------------
Init ==
    /\ args \in Invocations
    /\ pc = "run"
    /\ toolOnPath \in BOOLEAN
    /\ fs \in FileSystems
    /\ fsOps = <<>>
    /\ npmLog = <<>>
    /\ calls = <<>>
    /\ services = <<>>
    /\ flags = NoFlags
    /\ child = NoChild
    /\ out = <<>>
    /\ exitCode = NoExit
    /\ prevConfigOK = FALSE

\* Variant of Run: the command-name test is missing
Run_NoNameTest ==
    /\ pc = "run"
    /\ pc' = "lookpath"
    /\ UNCHANGED <<args, toolOnPath, fs, fsOps, npmLog, calls, services, flags,
                   child, out, exitCode, prevConfigOK>>

\* Run, line 35: the command-name test; anything else returns at once
Run ==
    /\ pc = "run"
    /\ IF args[1] = CommandName
       THEN pc' = "lookpath" /\ UNCHANGED exitCode
       ELSE pc' = "returned" /\ exitCode' = 0
    /\ UNCHANGED <<args, toolOnPath, fs, fsOps, npmLog, calls, services, flags,
                   child, out, prevConfigOK>>

\* Variant of LookPath: the message is printed but os.Exit(1) is missing
LookPath_NoExit ==
    /\ pc = "lookpath"
    /\ pc' = "dispatch"
    /\ out' = IF toolOnPath THEN out ELSE Append(out, MsgInstall)
    /\ UNCHANGED <<args, toolOnPath, fs, fsOps, npmLog, calls, services, flags,
                   child, exitCode, prevConfigOK>>

\* Run, lines 36-40: the search-path probe
LookPath ==
    /\ pc = "lookpath"
    /\ IF toolOnPath
       THEN pc' = "dispatch" /\ UNCHANGED <<exitCode, out>>
       ELSE Exit(1, <<MsgInstall>>)
    /\ UNCHANGED <<args, toolOnPath, fs, fsOps, npmLog, calls, services, flags,
                   child, prevConfigOK>>

\* Run, lines 42, 55, 78: the subcommand tests; args[1] of a one-element
\* slice is an index-out-of-range panic
Dispatch ==
    /\ pc = "dispatch"
    /\ IF Len(args) < 2
       THEN pc' = "panicked" /\ exitCode' = PanicStatus
       ELSE /\ pc' = CASE args[2] = "config-pws" -> "writeConfig"
                       [] args[2] = "deploy" -> "push"
                       [] OTHER -> "childStart"
            /\ UNCHANGED exitCode
    /\ UNCHANGED <<args, toolOnPath, fs, fsOps, npmLog, calls, services, flags,
                   child, out, prevConfigOK>>

\* writeDevelopmentConfig, lines 224-358: two ioutil.WriteFile calls, each
\* fatal on failure
writeDevelopmentConfig ==
    /\ pc = "writeConfig"
    /\ \E okDev \in BOOLEAN, okLocal \in BOOLEAN :
        IF ~okDev
        THEN /\ fsOps' = Append(fsOps, "write dev")
             /\ fs' = fs
             /\ Exit(1, <<MsgWrite>>)
        ELSE IF ~okLocal
        THEN /\ fsOps' = fsOps \o <<"write dev", "write local">>
             /\ fs' = [fs EXCEPT !.dev = developmentConfig]
             /\ Exit(1, <<MsgUpdatedDev, MsgWrite>>)
        ELSE /\ fsOps' = fsOps \o <<"write dev", "write local">>
             /\ fs' = [fs EXCEPT !.dev = developmentConfig, !.local = localConfig]
             /\ pc' = "link"
             /\ out' = out \o <<MsgUpdatedDev, MsgUpdatedLocal>>
             /\ UNCHANGED exitCode
    /\ UNCHANGED <<args, toolOnPath, npmLog, calls, services, flags, child,
                   prevConfigOK>>

\* Run, lines 44-50: link .cfignore to .gitignore when Stat says it is missing;
\* os.Symlink fails when the name is taken (also by a dangling link) or the
\* directory refuses the new entry
Link ==
    /\ pc = "link"
    /\ IF StatNotExist(fs)
       THEN /\ fsOps' = Append(fsOps, "symlink")
            /\ IF fs.cfignore # "none"
               THEN fs' = fs /\ Exit(1, <<MsgLinkExists>>)
               ELSE \E ok \in BOOLEAN :
                       IF ok
                       THEN /\ fs' = [fs EXCEPT !.cfignore = "link"]
                            /\ pc' = "npm"
                            /\ UNCHANGED <<exitCode, out>>
                       ELSE fs' = fs /\ Exit(1, <<MsgLinkDenied>>)
       ELSE /\ pc' = "npm"
            /\ UNCHANGED <<fs, fsOps, exitCode, out>>
    /\ UNCHANGED <<args, toolOnPath, npmLog, calls, services, flags, child,
                   prevConfigOK>>

\* Variant of npmInstalls: a failed install is fatal like every other error
npmInstalls_Abort ==
    /\ pc = "npm"
    /\ Len(npmLog) < Len(packages)
    /\ \E ok \in BOOLEAN :
        /\ npmLog' = Append(npmLog, [pkg |-> packages[Len(npmLog) + 1], ok |-> ok])
        /\ IF ok
           THEN UNCHANGED <<pc, out, exitCode>>
           ELSE Exit(1, <<MsgNpm>>)
    /\ UNCHANGED <<args, toolOnPath, fs, fsOps, calls, services, flags, child,
                   prevConfigOK>>

\* npmInstalls, lines 159-166: one iteration of the loop over packages
npmInstalls ==
    /\ pc = "npm"
    /\ Len(npmLog) < Len(packages)
    /\ \E ok \in BOOLEAN :
        /\ npmLog' = Append(npmLog, [pkg |-> packages[Len(npmLog) + 1], ok |-> ok])
        /\ out' = IF ok THEN out ELSE Append(out, MsgNpm)
    /\ UNCHANGED <<args, pc, toolOnPath, fs, fsOps, calls, services, flags, child,
                   exitCode, prevConfigOK>>

\* Run, line 52: os.Exit(0) once the loop of npmInstalls is over
ExitConfig ==
    /\ pc = "npm"
    /\ Len(npmLog) = Len(packages)
    /\ Exit(0, <<>>)
    /\ UNCHANGED <<args, toolOnPath, fs, fsOps, npmLog, calls, services, flags,
                   child, prevConfigOK>>

\* Variant of Push: the error is printed but os.Exit(1) is missing
Push_NoAbort ==
    /\ pc = "push"
    /\ \E ok \in BOOLEAN :
        /\ calls' = Append(calls, [cmd |-> PushCmd, ok |-> ok])
        /\ out' = IF ok THEN out ELSE Append(out, MsgRemote)
    /\ pc' = "setenv"
    /\ UNCHANGED <<args, toolOnPath, fs, fsOps, npmLog, services, flags, child,
                   exitCode, prevConfigOK>>

\* Run, lines 56-60
Push ==
    /\ pc = "push"
    /\ CliStep(PushCmd, "setenv")
    /\ UNCHANGED <<args, toolOnPath, fs, fsOps, npmLog, services, flags, child,
                   prevConfigOK>>

\* Run, lines 61-65
SetEnv ==
    /\ pc = "setenv"
    /\ CliStep(SetEnvCmd, "getServices")
    /\ UNCHANGED <<args, toolOnPath, fs, fsOps, npmLog, services, flags, child,
                   prevConfigOK>>

\* createServices, lines 170-193: fetch the list and scan it
GetServices ==
    /\ pc = "getServices"
    /\ \E ok \in BOOLEAN, svcs \in ServiceLists :
        /\ calls' = Append(calls, [cmd |-> GetServicesCmd, ok |-> ok])
        /\ IF ok
           THEN /\ services' = svcs
                /\ flags' = ScanServices(svcs, NoFlags)
                /\ pc' = "csRedis"
                /\ UNCHANGED <<exitCode, out>>
           ELSE /\ UNCHANGED <<services, flags>>
                /\ Exit(1, <<MsgRemote>>)
    /\ UNCHANGED <<args, toolOnPath, fs, fsOps, npmLog, child, prevConfigOK>>

\* Variant of CreateRedis: the error is printed but os.Exit(1) is missing
CreateRedis_NoAbort ==
    /\ pc = "csRedis"
    /\ IF ~flags.redisFound
       THEN \E ok \in BOOLEAN :
               /\ calls' = Append(calls, [cmd |-> CreateRedisCmd, ok |-> ok])
               /\ out' = IF ok THEN out ELSE Append(out, MsgRemote)
       ELSE UNCHANGED <<calls, out>>
    /\ pc' = "bsRedis"
    /\ UNCHANGED <<args, toolOnPath, fs, fsOps, npmLog, services, flags, child,
                   exitCode, prevConfigOK>>

\* createServices, lines 194-200
CreateRedis ==
    /\ pc = "csRedis"
    /\ IF ~flags.redisFound
       THEN CliStep(CreateRedisCmd, "bsRedis")
       ELSE pc' = "bsRedis" /\ UNCHANGED <<calls, exitCode, out>>
    /\ UNCHANGED <<args, toolOnPath, fs, fsOps, npmLog, services, flags, child,
                   prevConfigOK>>

\* createServices, lines 201-207
BindRedis ==
    /\ pc = "bsRedis"
    /\ IF ~flags.redisBound
       THEN CliStep(BindRedisCmd, "csSql")
       ELSE pc' = "csSql" /\ UNCHANGED <<calls, exitCode, out>>
    /\ UNCHANGED <<args, toolOnPath, fs, fsOps, npmLog, services, flags, child,
                   prevConfigOK>>

\* createServices, lines 208-214
CreateSql ==
    /\ pc = "csSql"
    /\ IF ~flags.sqlFound
       THEN CliStep(CreateSqlCmd, "bsSql")
       ELSE pc' = "bsSql" /\ UNCHANGED <<calls, exitCode, out>>
    /\ UNCHANGED <<args, toolOnPath, fs, fsOps, npmLog, services, flags, child,
                   prevConfigOK>>

\* Variant of BindSql: the test reads sqlFound where it should read sqlBound
BindSql_TestsFound ==
    /\ pc = "bsSql"
    /\ IF ~flags.sqlFound
       THEN CliStep(BindSqlCmd, "start")
       ELSE pc' = "start" /\ UNCHANGED <<calls, exitCode, out>>
    /\ UNCHANGED <<args, toolOnPath, fs, fsOps, npmLog, services, flags, child,
                   prevConfigOK>>

\* createServices, lines 215-221
BindSql ==
    /\ pc = "bsSql"
    /\ IF ~flags.sqlBound
       THEN CliStep(BindSqlCmd, "start")
       ELSE pc' = "start" /\ UNCHANGED <<calls, exitCode, out>>
    /\ UNCHANGED <<args, toolOnPath, fs, fsOps, npmLog, services, flags, child,
                   prevConfigOK>>

\* Run, lines 69-75: start the app, then os.Exit(0)
Start ==
    /\ pc = "start"
    /\ \E ok \in BOOLEAN :
        /\ calls' = Append(calls, [cmd |-> StartCmd, ok |-> ok])
        /\ IF ok THEN Exit(0, <<>>) ELSE Exit(1, <<MsgRemote>>)
    /\ UNCHANGED <<args, toolOnPath, fs, fsOps, npmLog, services, flags, child,
                   prevConfigOK>>

\* Run, lines 78-86: exec.Command("treeline", args[1:]...) and cmd.Start()
ChildStart ==
    /\ pc = "childStart"
    /\ \E ok \in BOOLEAN :
        IF ok
        THEN /\ child' = [started |-> TRUE, argv |-> TailArgs(args), status |-> NoExit]
             /\ pc' = "childWait"
             /\ UNCHANGED <<exitCode, out>>
        ELSE /\ child' = child
             /\ Exit(1, <<MsgStart>>)
    /\ UNCHANGED <<args, toolOnPath, fs, fsOps, npmLog, calls, services, flags,
                   prevConfigOK>>

\* Run, lines 87-93: cmd.Wait(); a nonzero child status is an error, otherwise
\* Run returns and the plugin process ends normally
ChildWait ==
    /\ pc = "childWait"
    /\ \E status \in 0..MaxStatus :
        /\ child' = [child EXCEPT !.status = status]
        /\ IF status # 0
           THEN Exit(1, <<MsgWait>>)
           ELSE /\ pc' = "returned"
                /\ exitCode' = 0
                /\ out' = out
    /\ UNCHANGED <<args, toolOnPath, fs, fsOps, npmLog, calls, services, flags,
                   prevConfigOK>>

\* config-pws was run and the host invokes the plugin again: a fresh process
\* in the directory as that run left it (a run of any other kind leaves the
\* directory as it found it, so what may follow it is an initial state)
Invoke ==
    /\ pc \in Terminal
    /\ fsOps # <<>>
    /\ args' \in Invocations
    /\ pc' = "run"
    /\ fsOps' = <<>>
    /\ npmLog' = <<>>
    /\ calls' = <<>>
    /\ services' = <<>>
    /\ flags' = NoFlags
    /\ child' = NoChild
    /\ out' = <<>>
    /\ exitCode' = NoExit
    /\ prevConfigOK' = (/\ Len(args) >= 2
                        /\ args[1] = CommandName
                        /\ args[2] = "config-pws"
                        /\ pc = "exited"
                        /\ exitCode = 0)
    /\ UNCHANGED <<toolOnPath, fs>>

Next ==
    \/ Run
    \/ LookPath
    \/ Dispatch
    \/ writeDevelopmentConfig
    \/ Link
    \/ npmInstalls
    \/ ExitConfig
    \/ Push
    \/ SetEnv
    \/ GetServices
    \/ CreateRedis
    \/ BindRedis
    \/ CreateSql
    \/ BindSql
    \/ Start
    \/ ChildStart
    \/ ChildWait
    \/ Invoke

Spec == Init /\ [][Next]_vars

----------------------------------------------------------------------------
\* Vocabulary of the properties, stated on the logs and not on the flags the
\* code computes

IsTreeline == args[1] = CommandName
HasSub(sub) == Len(args) >= 2 /\ args[2] = sub
IsConfigRun == IsTreeline /\ toolOnPath /\ HasSub("config-pws")
IsDeployRun == IsTreeline /\ toolOnPath /\ HasSub("deploy")
IsPassthroughRun ==
    IsTreeline /\ toolOnPath /\ Len(args) >= 2 /\ args[2] \notin {"config-pws", "deploy"}

NoSideEffects ==
    /\ fsOps = <<>>
    /\ npmLog = <<>>
    /\ calls = <<>>
    /\ ~child.started

Printed(msg) == \E i \in DOMAIN out : out[i] = msg
Issued(cmd) == \E i \in DOMAIN calls : calls[i].cmd = cmd
Succeeded(cmd) == \E i \in DOMAIN calls : calls[i].cmd = cmd /\ calls[i].ok
Count(cmd) == Cardinality({i \in DOMAIN calls : calls[i].cmd = cmd})
IssuedCmds == [i \in DOMAIN calls |-> calls[i].cmd]

\* a service of that name is in the fetched list
Listed(name) == \E i \in DOMAIN services : services[i].Name = name
\* the target app is among the bound applications of an entry of that name
ListedBound(name) ==
    \E i \in DOMAIN services :
        /\ services[i].Name = name
        /\ \E k \in DOMAIN services[i].ApplicationNames :
               services[i].ApplicationNames[k] = AppName

CreateCmd(name) == IF name = RedisService THEN CreateRedisCmd ELSE CreateSqlCmd
BindCmd(name) == IF name = RedisService THEN BindRedisCmd ELSE BindSqlCmd
FixedServices == {RedisService, SqlService}

\* position of a platform call in the order push, set-env, list-services,
\* create/bind requests, start
Rank(cmd) ==
    CASE cmd = PushCmd -> 1
      [] cmd = SetEnvCmd -> 2
      [] cmd = GetServicesCmd -> 3
      [] cmd = StartCmd -> 5
      [] OTHER -> 4

----------------------------------------------------------------------------
\* C1: when the command is "treeline" and the delegated executable is not on
\* the search path, the run prints the installation instruction and exits 1,
\* and nothing else happens: no file write, symlink, npm install, platform
\* call or child process, whatever the subcommand.
C1_MissingToolExitsFirst ==
    (IsTreeline /\ ~toolOnPath) =>
        /\ NoSideEffects
        /\ pc \in {"run", "lookpath", "exited"}
        /\ pc = "exited" => (exitCode = 1 /\ out = <<MsgInstall>>)

C1_Witness ==
    /\ IsTreeline /\ ~toolOnPath
    /\ HasSub("deploy")
    /\ pc = "exited" /\ exitCode = 1

\* C2: in a deploy run the platform calls come in the order push, set-env,
\* list-services, create/bind requests, start, none of them skipped; a call
\* that fails is the last call of the run, and the run has exited with 1.
C2_DeployOrderAndAbort ==
    /\ \A i, j \in DOMAIN calls :
          i < j => /\ Rank(calls[i].cmd) <= Rank(calls[j].cmd)
                   /\ Rank(calls[i].cmd) = Rank(calls[j].cmd) => Rank(calls[i].cmd) = 4
    /\ \A j \in DOMAIN calls :
          LET r == Rank(calls[j].cmd)
          IN /\ r \in {2, 3, 4} => \E i \in 1..(j - 1) : Rank(calls[i].cmd) = r - 1
             /\ r = 5 => \E i \in 1..(j - 1) : Rank(calls[i].cmd) = 3
    /\ \A i \in DOMAIN calls :
          ~calls[i].ok => (i = Len(calls) /\ pc = "exited" /\ exitCode = 1)

C2_Witness ==
    /\ IsDeployRun
    /\ Len(calls) = 6
    /\ calls[6].cmd = CreateSqlCmd /\ ~calls[6].ok
    /\ pc = "exited" /\ exitCode = 1

\* C3: a deploy run that finds both services listed and both bound to
\* hackday-nc issues no create-service and no bind-service call; its calls are
\* push, set-env, list-services and then start, and when start succeeds it
\* exits 0.
C3_ProvisionedIsNoOp ==
    (ListedBound(RedisService) /\ ListedBound(SqlService)) =>
        /\ \A n \in FixedServices : ~Issued(CreateCmd(n)) /\ ~Issued(BindCmd(n))
        /\ IF pc \in Terminal
           THEN /\ IssuedCmds = <<PushCmd, SetEnvCmd, GetServicesCmd, StartCmd>>
                /\ calls[4].ok => (pc = "exited" /\ exitCode = 0)
           ELSE IssuedCmds = <<PushCmd, SetEnvCmd, GetServicesCmd>>

C3_Witness ==
    /\ ListedBound(RedisService) /\ ListedBound(SqlService)
    /\ pc = "exited" /\ exitCode = 0
    /\ Succeeded(StartCmd)

\* C4: when config-pws has succeeded and config-pws is run again, the second
\* run leaves both config files holding the templates and does not fail on
\* the link that already exists -- also when .gitignore is missing.
C4_SecondConfigRunSucceeds ==
    (prevConfigOK /\ IsConfigRun /\ pc \in Terminal /\ ~Printed(MsgWrite)) =>
        /\ fs.dev = developmentConfig
        /\ fs.local = localConfig
        /\ ~Printed(MsgLinkExists)

\* C5 as stated: the child gets exactly the arguments after the command name,
\* and the plugin's exit status equals the child's exit status.
C5_MirrorsChildStatus ==
    (IsPassthroughRun /\ child.status # NoExit) =>
        /\ child.argv = [i \in 1..(Len(args) - 1) |-> args[i + 1]]
        /\ exitCode = child.status

\* C5 amended: the child gets exactly the arguments after the command name;
\* when it exits 0 the run ends normally with status 0, and when it exits
\* nonzero the plugin prints an error and exits 1, whatever the child's status.
C5_ChildStatusToZeroOrOne ==
    (IsPassthroughRun /\ child.started) =>
        /\ child.argv = [i \in 1..(Len(args) - 1) |-> args[i + 1]]
        /\ child.status = 0 => (pc = "returned" /\ exitCode = 0)
        /\ child.status > 0 => (pc = "exited" /\ exitCode = 1 /\ Printed(MsgWait))

C5_Witness ==
    /\ IsPassthroughRun
    /\ Len(args) = 3
    /\ child.status = 2
    /\ pc = "exited" /\ exitCode = 1

\* C6: a run whose command is "treeline", with or without a subcommand, ends
\* with exit code 0 or 1 and never abnormally, and has printed a message when
\* the code is 1.
C6_ExitZeroOrOne ==
    (IsTreeline /\ pc \in Terminal) =>
        /\ pc # "panicked"
        /\ exitCode \in {0, 1}
        /\ exitCode = 1 => out # <<>>

\* C7: a config-pws run that gets past the link step attempts the three
\* installs in the order of the list, once each, prints one error per failed
\* install, and exits 0 whatever the installs did.
C7_AllInstallsAttempted ==
    /\ [i \in DOMAIN npmLog |-> npmLog[i].pkg] = SubSeq(packages, 1, Len(npmLog))
    /\ (/\ IsConfigRun /\ pc \in Terminal
        /\ ~Printed(MsgWrite) /\ ~Printed(MsgLinkExists) /\ ~Printed(MsgLinkDenied)) =>
            /\ Len(npmLog) = Len(packages)
            /\ pc = "exited" /\ exitCode = 0
            /\ Cardinality({i \in DOMAIN out : out[i] = MsgNpm})
                 = Cardinality({i \in DOMAIN npmLog : ~npmLog[i].ok})

C7_Witness ==
    /\ IsConfigRun
    /\ pc = "exited" /\ exitCode = 0
    /\ Len(npmLog) = 3
    /\ \A i \in DOMAIN npmLog : ~npmLog[i].ok

\* number of provisioning decisions (create redis, bind redis, create sql,
\* bind sql) the run has taken so far, read off its position and its calls
Decided ==
    CASE pc = "bsRedis" -> 1
      [] pc = "csSql" -> 2
      [] pc = "bsSql" -> 3
      [] pc = "start" -> 4
      [] pc = "exited" /\ calls # <<>> ->
            LET last == calls[Len(calls)].cmd
            IN CASE last = CreateRedisCmd -> 1
                 [] last = BindRedisCmd -> 2
                 [] last = CreateSqlCmd -> 3
                 [] last \in {BindSqlCmd, StartCmd} -> 4
                 [] OTHER -> 0
      [] OTHER -> 0

ProvisioningSteps ==
    <<[cmd |-> CreateRedisCmd, due |-> ~Listed(RedisService)],
      [cmd |-> BindRedisCmd, due |-> ~ListedBound(RedisService)],
      [cmd |-> CreateSqlCmd, due |-> ~Listed(SqlService)],
      [cmd |-> BindSqlCmd, due |-> ~ListedBound(SqlService)]>>

\* C8: for each of the two services, once the run has come to it without an
\* earlier failure, a create-service request is issued exactly when no entry
\* of the fetched list has its name, and a bind-service request exactly when
\* hackday-nc is not bound in any entry of its name; no request is issued
\* before its turn, and none more than once.
C8_CreateBindExactlyWhenDue ==
    \A k \in DOMAIN ProvisioningSteps :
        LET step == ProvisioningSteps[k]
        IN /\ Count(step.cmd) <= 1
           /\ k <= Decided => (Issued(step.cmd) <=> step.due)
           /\ k > Decided => ~Issued(step.cmd)

C8_Witness ==
    /\ IsDeployRun
    /\ pc = "exited" /\ exitCode = 0
    /\ Listed(RedisService) /\ ~ListedBound(RedisService)
    /\ ~Listed(SqlService)
    /\ ~Issued(CreateRedisCmd) /\ Issued(BindRedisCmd)
    /\ Issued(CreateSqlCmd) /\ Issued(BindSqlCmd)

\* C9: when the command is not "treeline" the run does nothing: no exit
\* through the search-path probe, no file write, symlink, npm install,
\* platform call or child process, nothing printed, and Run returns without
\* the plugin calling exit.
C9_OtherCommandNoEffect ==
    ~IsTreeline =>
        /\ NoSideEffects
        /\ out = <<>>
        /\ pc \in {"run", "returned"}

C9_Witness ==
    /\ ~IsTreeline
    /\ HasSub("deploy")
    /\ ~toolOnPath
    /\ pc = "returned"

\* C10: when start has been issued, each of the two services was listed or
\* its create-service succeeded in this run, and was listed as bound to
\* hackday-nc or its bind-service succeeded in this run; and a bind-service
\* for a service is only issued when the service was listed or its
\* create-service succeeded earlier in the run.
C10_StartAfterProvisioning ==
    /\ Issued(StartCmd) =>
          \A n \in FixedServices :
              /\ Listed(n) \/ Succeeded(CreateCmd(n))
              /\ ListedBound(n) \/ Succeeded(BindCmd(n))
    /\ \A n \in FixedServices : \A j \in DOMAIN calls :
          calls[j].cmd = BindCmd(n) =>
              \/ Listed(n)
              \/ \E i \in 1..(j - 1) : calls[i].cmd = CreateCmd(n) /\ calls[i].ok

C10_Witness ==
    /\ Issued(StartCmd)
    /\ ~Listed(RedisService) /\ ~Listed(SqlService)
    /\ Succeeded(BindRedisCmd) /\ Succeeded(BindSqlCmd)

====
